---- MODULE Spec2Model ----
(***************************************************************************)
(* Model of the persistence core of the Daily Todo application:           *)
(*   - the transaction layer  (utils/storage: atomicWrite, readStorage,   *)
(*     validateStorage, ...),                                             *)
(*   - the tab lock           (utils/tabLock: acquireTabLock, ...),        *)
(*   - the stores built on them (appStore, preferencesStore, taskStore).   *)
(* localStorage is one store shared by every tab.                          *)
(***************************************************************************)
EXTENDS Integers, Sequences, FiniteSets, TLC

(***************************************************************************)
(* Bounds of the model.                                                    *)
(***************************************************************************)
NumTabs == 2
MaxUuid == 2
MaxBeatTicks == 1
MaxTimeoutTicks == 1
MaxTasks == 1
MaxTxTasks == 1

Tabs == 1..NumTabs

(***************************************************************************)
(* Program constants.                                                      *)
(***************************************************************************)
STORAGE_KEY == "todo-app-data"
BACKUP_KEY == "todo-app-data-backup"
LOCK_KEY == "todo-app-lock"
Keys == {STORAGE_KEY, BACKUP_KEY, LOCK_KEY}

LOCK_TIMEOUT == 300000
HEARTBEAT_INTERVAL == 30000
MaxDescription == 500

StartTime == 1000

(***************************************************************************)
(* JSON values.  A stored string is a sequence of integer tokens: the      *)
(* braces and brackets of the JSON text, and one token per scalar.         *)
(* Scalars: null, false and true have their own tokens; a number is        *)
(* itself; a string is a code >= 0, where the code of a task description   *)
(* is its length, the code of a timestamp is its millisecond value, the    *)
(* code of a date is its day number, and code 0 stands for a string that   *)
(* matches no format ("").  Bad is a scalar of a type no field accepts.    *)
(***************************************************************************)
JNull == 0 - 100
JFalse == 0 - 101
JTrue == 0 - 102
Bad == 0 - 103
LBRACE == 0 - 110
RBRACE == 0 - 111
LBRACK == 0 - 112
RBRACK == 0 - 113

NEWEST_FIRST == 1
OLDEST_FIRST == 2
VERSION == 1

Delims == {LBRACE, RBRACE, LBRACK, RBRACK}

\* number of tokens of one serialized task: { id description completed createdAt completedAt date }
TaskTokens == 8
\* tokens before the first task: { version lastModified totalTaskCount oldest newest [
HeadTokens == 7
\* tokens after the last task: ] lastViewedDate sortOrder }
TailTokens == 4

NoDoc == [metadata |-> [version |-> Bad, lastModified |-> Bad, totalTaskCount |-> Bad,
                        oldestTaskDate |-> Bad, newestTaskDate |-> Bad],
          tasks |-> <<>>,
          preferences |-> [lastViewedDate |-> Bad, sortOrder |-> Bad]]

\* JSON.stringify of one task
SerializeTask(t) ==
    <<LBRACE, t.id, t.description, t.completed, t.createdAt, t.completedAt, t.date, RBRACE>>

RECURSIVE SerializeTasks(_)
SerializeTasks(ts) ==
    IF ts = <<>> THEN <<>>
    ELSE SerializeTask(Head(ts)) \o SerializeTasks(Tail(ts))

\* JSON.stringify(data) of an AppData object
Serialize(d) ==
    <<LBRACE, d.metadata.version, d.metadata.lastModified, d.metadata.totalTaskCount,
      d.metadata.oldestTaskDate, d.metadata.newestTaskDate, LBRACK>>
    \o SerializeTasks(d.tasks)
    \o <<RBRACK, d.preferences.lastViewedDate, d.preferences.sortOrder, RBRACE>>

IsScalar(tok) == tok \notin Delims

\* the text of one task at position i of the bytes b is well formed
TaskSyntaxOk(b, i) ==
    /\ b[i] = LBRACE
    /\ \A k \in 1..6 : IsScalar(b[i + k])
    /\ b[i + 7] = RBRACE

\* JSON.parse succeeds on the bytes b (as the text of an object of the document's layout)
SyntaxOk(b) ==
    /\ Len(b) >= HeadTokens + TailTokens
    /\ (Len(b) - HeadTokens - TailTokens) % TaskTokens = 0
    /\ b[1] = LBRACE
    /\ \A k \in 2..6 : IsScalar(b[k])
    /\ b[HeadTokens] = LBRACK
    /\ \A n \in 0..((Len(b) - HeadTokens - TailTokens) \div TaskTokens - 1) :
           TaskSyntaxOk(b, HeadTokens + 1 + n * TaskTokens)
    /\ b[Len(b) - 3] = RBRACK
    /\ IsScalar(b[Len(b) - 2])
    /\ IsScalar(b[Len(b) - 1])
    /\ b[Len(b)] = RBRACE

ParseTask(b, i) ==
    [id |-> b[i + 1], description |-> b[i + 2], completed |-> b[i + 3],
     createdAt |-> b[i + 4], completedAt |-> b[i + 5], date |-> b[i + 6]]

\* JSON.parse(raw): ok = FALSE stands for the SyntaxError it throws
Parse(b) ==
    IF ~SyntaxOk(b) THEN [ok |-> FALSE, value |-> NoDoc]
    ELSE [ok |-> TRUE,
          value |->
            [metadata |-> [version |-> b[2], lastModified |-> b[3], totalTaskCount |-> b[4],
                           oldestTaskDate |-> b[5], newestTaskDate |-> b[6]],
             tasks |-> [n \in 1..((Len(b) - HeadTokens - TailTokens) \div TaskTokens) |->
                           ParseTask(b, HeadTokens + 1 + (n - 1) * TaskTokens)],
             preferences |-> [lastViewedDate |-> b[Len(b) - 2], sortOrder |-> b[Len(b) - 1]]]]

(***************************************************************************)
(* validation.ts: the zod schemas.                                         *)
(***************************************************************************)
IsString(v) == v >= 0
\* z.string().datetime(), z.string().uuid(), z.string().regex(date): a string in the format
IsFormatted(v) == v >= 1
IsBoolean(v) == v \in {JTrue, JFalse}

TaskSchema(t) ==
    /\ IsFormatted(t.id)
    /\ t.description >= 1 /\ t.description <= MaxDescription
    /\ IsBoolean(t.completed)
    /\ IsFormatted(t.createdAt)
    /\ (t.completedAt = JNull \/ IsFormatted(t.completedAt))
    /\ IsFormatted(t.date)

UserPreferencesSchema(p) ==
    /\ IsFormatted(p.lastViewedDate)
    /\ p.sortOrder \in {NEWEST_FIRST, OLDEST_FIRST}

StorageMetadataSchema(m) ==
    /\ IsString(m.version)
    /\ IsFormatted(m.lastModified)
    /\ m.totalTaskCount >= 0
    /\ (m.oldestTaskDate = JNull \/ IsFormatted(m.oldestTaskDate))
    /\ (m.newestTaskDate = JNull \/ IsFormatted(m.newestTaskDate))

\* AppDataSchema.safeParse(d).success
AppDataSchema(d) ==
    /\ StorageMetadataSchema(d.metadata)
    /\ \A i \in 1..Len(d.tasks) : TaskSchema(d.tasks[i])
    /\ UserPreferencesSchema(d.preferences)

\* now.split('T')[0]: the date of a timestamp
DateOf(ts) == ts \div 86400000 + 1

\* (variant of createInitialAppData: a count no schema accepts)
createInitialAppDataBadCount(time) ==
    [metadata |-> [version |-> VERSION, lastModified |-> time, totalTaskCount |-> 0 - 1,
                   oldestTaskDate |-> JNull, newestTaskDate |-> JNull],
     tasks |-> <<>>,
     preferences |-> [lastViewedDate |-> DateOf(time), sortOrder |-> NEWEST_FIRST]]

\* createInitialAppData()
createInitialAppData(time) ==
    [metadata |-> [version |-> VERSION, lastModified |-> time, totalTaskCount |-> 0,
                   oldestTaskDate |-> JNull, newestTaskDate |-> JNull],
     tasks |-> <<>>,
     preferences |-> [lastViewedDate |-> DateOf(time), sortOrder |-> NEWEST_FIRST]]

(***************************************************************************)
(* localStorage: every key is absent (getItem returns null) or holds a     *)
(* string.  A setItem call succeeds, throws (QuotaExceededError, nothing   *)
(* stored) or, for a defective medium, silently stores a truncated value.  *)
(***************************************************************************)
Absent == [present |-> FALSE, bytes |-> <<>>]
Stored(b) == [present |-> TRUE, bytes |-> b]

Faults == {"ok", "throw", "trunc"}
NoFaults == [backup |-> "ok", primary |-> "ok", rollback |-> "ok"]

Truncate(b) == SubSeq(b, 1, Len(b) \div 2)

GetItem(store, key) == store[key]

\* if (x): null and the empty string are falsy
Truthy(v) == v.present /\ v.bytes # <<>>

SetItem(store, key, b, fault) ==
    IF fault = "throw" THEN [ls |-> store, threw |-> TRUE]
    ELSE IF fault = "trunc" THEN [ls |-> [store EXCEPT ![key] = Stored(Truncate(b))], threw |-> FALSE]
    ELSE [ls |-> [store EXCEPT ![key] = Stored(b)], threw |-> FALSE]

RemoveItem(store, key) == [store EXCEPT ![key] = Absent]

(***************************************************************************)
(* storage: atomicWrite.                                                   *)
(***************************************************************************)
\* (variant of BackupStep: the new value, not the current one, goes to the backup key)
BackupStepOfNew(store, serialized, fault) ==
    LET currentData == GetItem(store, STORAGE_KEY)
    IN  IF Truthy(currentData) THEN SetItem(store, BACKUP_KEY, serialized, fault)
        ELSE [ls |-> store, threw |-> FALSE]

\* Step 1: save a backup of the current data
BackupStep(store, serialized, fault) ==
    LET currentData == GetItem(store, STORAGE_KEY)
    IN  IF Truthy(currentData) THEN SetItem(store, BACKUP_KEY, currentData.bytes, fault)
        ELSE [ls |-> store, threw |-> FALSE]

\* Step 2: write the new data
WriteStep(store, serialized, fault) == SetItem(store, STORAGE_KEY, serialized, fault)

\* (variant of VerifyStep: only the presence of a value is checked)
VerifyStepPresence(store, serialized) == GetItem(store, STORAGE_KEY).present

\* Step 3: verify that the write succeeded
VerifyStep(store, serialized) ==
    LET written == GetItem(store, STORAGE_KEY)
    IN  written.present /\ written.bytes = serialized

\* the catch block: roll back to the backup
RollbackStep(store, fault) ==
    LET backup == GetItem(store, BACKUP_KEY)
    IN  IF Truthy(backup) THEN SetItem(store, STORAGE_KEY, backup.bytes, fault)
        ELSE [ls |-> store, threw |-> FALSE]

\* atomicWrite(data) on the store, the three setItem calls it may make failing as f says.
\* Result: the store afterwards, whether the call threw, the error of the try block
\* (original) and the error that reaches the caller (error).
AtomicWrite(store, data, f) ==
    LET serialized == Serialize(data)
        valid == AppDataSchema(data)
        s1 == IF valid THEN BackupStep(store, serialized, f.backup)
              ELSE [ls |-> store, threw |-> FALSE]
        s2 == IF valid /\ ~s1.threw THEN WriteStep(s1.ls, serialized, f.primary)
              ELSE [ls |-> s1.ls, threw |-> FALSE]
        original == IF ~valid THEN "Invalid data structure"
                    ELSE IF s1.threw \/ s2.threw THEN "QuotaExceededError"
                    ELSE IF ~VerifyStep(s2.ls, serialized) THEN "Write verification failed"
                    ELSE "none"
        s3 == IF original # "none" THEN RollbackStep(s2.ls, f.rollback)
              ELSE [ls |-> s2.ls, threw |-> FALSE]
    IN  [ls |-> s3.ls,
         threw |-> original # "none",
         original |-> original,
         error |-> IF s3.threw THEN "QuotaExceededError" ELSE original,
         \* which of the three setItem calls were made
         called |-> [backup |-> valid /\ Truthy(GetItem(store, STORAGE_KEY)),
                     primary |-> valid /\ ~s1.threw,
                     rollback |-> original # "none" /\ Truthy(GetItem(s2.ls, BACKUP_KEY))]]

\* (variant of ReadStorage: whatever parses is returned, the schema is not consulted)
ReadStorageUnvalidated(store) ==
    LET raw == GetItem(store, STORAGE_KEY)
        parsed == Parse(raw.bytes)
    IN  IF ~Truthy(raw) \/ ~parsed.ok THEN [isNull |-> TRUE, data |-> NoDoc]
        ELSE [isNull |-> FALSE, data |-> parsed.value]

\* readStorage(): the document, or null
ReadStorage(store) ==
    LET raw == GetItem(store, STORAGE_KEY)
        parsed == Parse(raw.bytes)
    IN  IF ~Truthy(raw) THEN [isNull |-> TRUE, data |-> NoDoc]
        ELSE IF ~parsed.ok THEN [isNull |-> TRUE, data |-> NoDoc]
        ELSE IF ~AppDataSchema(parsed.value) THEN [isNull |-> TRUE, data |-> NoDoc]
        ELSE [isNull |-> FALSE, data |-> parsed.value]

\* (variant of ValidateStorage: whatever is stored is trusted)
ValidateStorageTrusting(store) == TRUE

\* validateStorage()
ValidateStorage(store) ==
    LET raw == GetItem(store, STORAGE_KEY)
        parsed == Parse(raw.bytes)
    IN  IF ~Truthy(raw) THEN TRUE
        ELSE IF ~parsed.ok THEN FALSE
        ELSE AppDataSchema(parsed.value)

\* clearStorage()
ClearStorage(store) == RemoveItem(RemoveItem(store, STORAGE_KEY), BACKUP_KEY)

\* exportRawData()
ExportRawData(store) ==
    LET raw == GetItem(store, STORAGE_KEY)
    IN  IF Truthy(raw) THEN raw.bytes ELSE <<LBRACE, RBRACE>>


(***************************************************************************)
(* State.                                                                  *)
(*   ls        localStorage, shared by all tabs                            *)
(*   now       Date.now()                                                  *)
(*   tabs      per tab (one page load each: a reload is another tab): the  *)
(*             module state of tabLock.ts, the position of a running       *)
(*             acquireTabLock, the appStore and the App component          *)
(*   nextUuid  the next value crypto.randomUUID() returns                  *)
(*   hist      the last operation: who called what (tab, op, arg, data, f), *)
(*             when (at), on which store (pre), holding which lockId (held),*)
(*             and what it returned (ok, ret, error); for acquireTabLock   *)
(*             also the record it read first (seen), whether it stored a   *)
(*             record (wrote), and whether no other tab changed the lock   *)
(*             key while it ran (alone)                                    *)
(***************************************************************************)
VARIABLES ls, now, tabs, nextUuid, hist

vars == <<ls, now, tabs, nextUuid, hist>>

NoReason == "null"
REASON_CORRUPTED == "Storage corrupted. Please reset or export your data."
REASON_OTHER_TAB == "Another tab is already open. Please close other tabs to edit tasks."
REASON_NOT_ACQUIRED == "Could not acquire tab lock. Multiple tabs detected."

NoLockData == [lockId |-> JNull, timestamp |-> JNull]
NullLock == [isNull |-> TRUE, lockId |-> JNull, timestamp |-> JNull]

\* a freshly loaded page
FreshTab ==
    [alive |-> TRUE,
     \* tabLock.ts module state
     currentLockId |-> JNull,
     heartbeatTimer |-> JNull,
     unloadListeners |-> <<>>,
     \* a running acquireTabLock: its position, its locals existingLock and lockData, its caller
     pc |-> "idle",
     existingLock |-> NullLock,
     lockData |-> NoLockData,
     caller |-> "none",
     interfered |-> FALSE,
     \* appStore
     isReadOnlyMode |-> FALSE,
     readOnlyReason |-> NoReason,
     hasTabLock |-> FALSE,
     lockId |-> JNull,
     isInitialized |-> FALSE,
     \* taskStore and preferencesStore
     tasks |-> <<>>,
     lastViewedDate |-> DateOf(StartTime),
     \* App component: the position of its initialize effect
     boot |-> "mounted"]

\* a page that is gone (closed or crashed): its memory is lost
DeadTab == [FreshTab EXCEPT !.alive = FALSE, !.boot = "gone"]

NoHist ==
    [op |-> "none", tab |-> 0, pre |-> [k \in Keys |-> Absent], held |-> JNull,
     at |-> 0, arg |-> JNull, data |-> NoDoc, f |-> NoFaults, ok |-> FALSE, ret |-> JNull,
     error |-> "none", seen |-> NullLock, wrote |-> FALSE, alone |-> TRUE]

Init ==
    /\ ls = [k \in Keys |-> Absent]
    /\ now = StartTime
    /\ tabs = [t \in Tabs |-> FreshTab]
    /\ nextUuid = 1
    /\ hist = NoHist

(***************************************************************************)
(* tabLock.ts                                                              *)
(***************************************************************************)
LockFaults == {"ok", "throw"}

\* JSON.stringify(lockData)
SerializeLock(l) == <<LBRACE, l.lockId, l.timestamp, RBRACE>>

\* getLockData(): the record, or null (absent, empty or unparsable)
GetLockData(store) ==
    LET raw == GetItem(store, LOCK_KEY)
        b == raw.bytes
    IN  IF ~Truthy(raw) THEN NullLock
        ELSE IF ~(Len(b) = 4 /\ b[1] = LBRACE /\ IsScalar(b[2]) /\ IsScalar(b[3]) /\ b[4] = RBRACE)
             THEN NullLock
        ELSE [isNull |-> FALSE, lockId |-> b[2], timestamp |-> b[3]]

\* (variant of AcquireSeesActive: the comparison the wrong way round)
AcquireSeesActiveFlipped(lock, time) == time - lock.timestamp > LOCK_TIMEOUT

\* (variant of AcquireSeesActive: any record at all blocks the acquisition)
AcquireSeesActiveAlways(lock, time) == TRUE

\* (variant of AcquireSeesActive: the heartbeat interval taken as the threshold)
AcquireSeesActiveByInterval(lock, time) == time - lock.timestamp < HEARTBEAT_INTERVAL

\* age < LOCK_TIMEOUT, as acquireTabLock tests it
AcquireSeesActive(lock, time) == time - lock.timestamp < LOCK_TIMEOUT

\* (variant of IsLockActive: a record of any age counts as active)
IsLockActiveAnyAge(store, time) == ~GetLockData(store).isNull

\* isLockActive()
IsLockActive(store, time) ==
    LET lock == GetLockData(store)
    IN  IF lock.isNull THEN FALSE
        ELSE time - lock.timestamp < LOCK_TIMEOUT

\* (variant of AfterAcquire: a failed acquisition of initializeApp gives no reason)
AfterAcquireSilent(tab, acquired, lockId) ==
    IF ~acquired
    THEN [tab EXCEPT !.isReadOnlyMode = TRUE, !.hasTabLock = FALSE,
                     !.boot = IF tab.caller = "init" THEN "loadPreferences" ELSE @]
    ELSE [tab EXCEPT !.hasTabLock = TRUE, !.lockId = lockId, !.isReadOnlyMode = FALSE,
                     !.readOnlyReason = NoReason,
                     !.boot = IF tab.caller = "init" THEN "loadPreferences" ELSE @]

\* what the caller of acquireTabLock does with its result
AfterAcquire(tab, acquired, lockId) ==
    IF tab.caller = "init" THEN
        IF ~acquired
        THEN [tab EXCEPT !.isReadOnlyMode = TRUE, !.readOnlyReason = REASON_NOT_ACQUIRED,
                         !.hasTabLock = FALSE, !.boot = "loadPreferences"]
        ELSE [tab EXCEPT !.hasTabLock = TRUE, !.lockId = lockId, !.isReadOnlyMode = FALSE,
                         !.readOnlyReason = NoReason, !.isInitialized = TRUE,
                         !.boot = "loadPreferences"]
    ELSE IF tab.caller = "attempt" THEN
        IF acquired
        THEN [tab EXCEPT !.hasTabLock = TRUE, !.lockId = lockId, !.isReadOnlyMode = FALSE,
                         !.readOnlyReason = NoReason]
        ELSE tab
    ELSE tab

\* acquireTabLock returns: the call is over
AcquireReturns(tab, acquired, lockId) ==
    [AfterAcquire(tab, acquired, lockId)
        EXCEPT !.pc = "idle", !.existingLock = NullLock, !.lockData = NoLockData,
               !.caller = "none", !.interfered = FALSE]

\* another tab changed the lock key: every acquireTabLock in progress elsewhere has been interfered with
Interfere(tt, t) ==
    [u \in Tabs |-> IF u # t /\ tt[u].pc # "idle" THEN [tt[u] EXCEPT !.interfered = TRUE] ELSE tt[u]]

Record(op, t, arg, ok, ret, error) ==
    [op |-> op, tab |-> t, pre |-> ls, held |-> tabs[t].currentLockId, at |-> now, arg |-> arg,
     data |-> NoDoc, f |-> NoFaults, ok |-> ok, ret |-> ret, error |-> error,
     seen |-> NullLock, wrote |-> FALSE, alone |-> TRUE]

\* a direct call of isLockActive()
CheckLockActive(t) ==
    /\ tabs[t].alive /\ tabs[t].pc = "idle"
    /\ hist' = Record("isLockActive", t, JNull, IsLockActive(ls, now), JNull, "none")
    /\ UNCHANGED <<ls, now, tabs, nextUuid>>

\* acquireTabLock, lines 28-46: read the record, refuse if it is active, else make the new lockData
AcquireRead(t, caller) ==
    LET existingLock == GetLockData(ls)
        tab == [tabs[t] EXCEPT !.caller = caller]
    IN  IF ~existingLock.isNull /\ AcquireSeesActive(existingLock, now)
        THEN /\ tabs' = [tabs EXCEPT ![t] = AcquireReturns(tab, FALSE, JNull)]
             /\ hist' = [Record("acquireTabLock", t, JNull, FALSE, JNull, "none")
                            EXCEPT !.seen = existingLock]
             /\ UNCHANGED <<ls, now, nextUuid>>
        ELSE /\ nextUuid <= MaxUuid
             /\ tabs' = [tabs EXCEPT ![t] = [tab EXCEPT !.pc = "write",
                                                 !.existingLock = existingLock,
                                                 !.lockData = [lockId |-> nextUuid, timestamp |-> now]]]
             /\ nextUuid' = nextUuid + 1
             /\ hist' = NoHist
             /\ UNCHANGED <<ls, now>>

\* a direct call of acquireTabLock()
AcquireTabLock(t) ==
    /\ tabs[t].alive /\ tabs[t].pc = "idle"
    /\ AcquireRead(t, "direct")

\* acquireTabLock, line 48: store the record (a throw is caught at line 66)
AcquireWrite(t) ==
    /\ tabs[t].alive /\ tabs[t].pc = "write"
    /\ \E fault \in LockFaults :
         LET s == SetItem(ls, LOCK_KEY, SerializeLock(tabs[t].lockData), fault)
         IN  /\ ls' = s.ls
             /\ IF s.threw
                THEN /\ tabs' = [tabs EXCEPT ![t] = AcquireReturns(tabs[t], FALSE, JNull)]
                     /\ hist' = [Record("acquireTabLock", t, JNull, FALSE, JNull, "QuotaExceededError")
                                   EXCEPT !.seen = tabs[t].existingLock,
                                          !.alone = ~tabs[t].interfered]
                ELSE /\ tabs' = [Interfere(tabs, t) EXCEPT ![t].pc = "verify"]
                     /\ hist' = NoHist
    /\ UNCHANGED <<now, nextUuid>>

\* acquireTabLock, lines 51-65: read back, then become the holder
AcquireVerify(t) ==
    /\ tabs[t].alive /\ tabs[t].pc = "verify"
    /\ LET verified == GetLockData(ls)
           lockId == tabs[t].lockData.lockId
       IN  IF verified.isNull \/ verified.lockId # lockId
           THEN /\ tabs' = [tabs EXCEPT ![t] = AcquireReturns(tabs[t], FALSE, JNull)]
                /\ hist' = [Record("acquireTabLock", t, JNull, FALSE, JNull, "none")
                               EXCEPT !.seen = tabs[t].existingLock, !.wrote = TRUE,
                                      !.alone = ~tabs[t].interfered]
           ELSE /\ tabs' = [tabs EXCEPT ![t] =
                      AcquireReturns([tabs[t] EXCEPT !.currentLockId = lockId,
                                                     !.heartbeatTimer = now + HEARTBEAT_INTERVAL,
                                                     !.unloadListeners = Append(@, lockId)],
                                     TRUE, lockId)]
                /\ hist' = [Record("acquireTabLock", t, JNull, TRUE, lockId, "none")
                               EXCEPT !.seen = tabs[t].existingLock, !.wrote = TRUE,
                                      !.alone = ~tabs[t].interfered]
    /\ UNCHANGED <<ls, now, nextUuid>>

\* (variant of ReleaseTabLock: the record is removed whoever owns it)
ReleaseTabLockUnchecked(store, tab, lockId) ==
    [ls |-> RemoveItem(store, LOCK_KEY),
     tab |-> [tab EXCEPT !.currentLockId = JNull, !.heartbeatTimer = JNull],
     threw |-> FALSE]

\* releaseTabLock(lockId) of a tab on a store: the store and the tab afterwards
ReleaseTabLock(store, tab, lockId) ==
    LET existingLock == GetLockData(store)
    IN  IF ~existingLock.isNull /\ existingLock.lockId = lockId
        THEN [ls |-> RemoveItem(store, LOCK_KEY),
              tab |-> [tab EXCEPT !.currentLockId = JNull, !.heartbeatTimer = JNull],
              threw |-> FALSE]
        ELSE [ls |-> store, tab |-> tab, threw |-> FALSE]

\* a direct call of releaseTabLock with a lockId this tab was given by acquireTabLock
Release(t) ==
    /\ tabs[t].alive /\ tabs[t].pc = "idle"
    /\ \E i \in 1..Len(tabs[t].unloadListeners) :
         LET lockId == tabs[t].unloadListeners[i]
             r == ReleaseTabLock(ls, tabs[t], lockId)
         IN  /\ ls' = r.ls
             /\ tabs' = [tabs EXCEPT ![t] = r.tab]
             /\ hist' = [Record("releaseTabLock", t, lockId, ~r.threw, JNull, "none")
                            EXCEPT !.error = IF r.threw THEN "thrown" ELSE "none"]
    /\ UNCHANGED <<now, nextUuid>>

\* updateHeartbeat(): rewrite the record with the tab's lockId (a throw is caught)
UpdateHeartbeat(store, tab, time, fault) ==
    IF tab.currentLockId = JNull THEN store
    ELSE SetItem(store, LOCK_KEY,
                 SerializeLock([lockId |-> tab.currentLockId, timestamp |-> time]), fault).ls

\* the interval timer of startHeartbeat fires
Heartbeat(t) ==
    /\ tabs[t].alive /\ tabs[t].pc = "idle"
    /\ tabs[t].heartbeatTimer # JNull
    /\ now >= tabs[t].heartbeatTimer
    /\ \E fault \in LockFaults :
         /\ ls' = UpdateHeartbeat(ls, tabs[t], now, fault)
         /\ hist' = [Record("updateHeartbeat", t, JNull, fault = "ok", JNull, "none")
                        EXCEPT !.f = [NoFaults EXCEPT !.primary = fault]]
    /\ tabs' = [IF ls' # ls THEN Interfere(tabs, t) ELSE tabs
                   EXCEPT ![t].heartbeatTimer = now + HEARTBEAT_INTERVAL]
    /\ UNCHANGED <<now, nextUuid>>

\* (variant of RunUnloadListeners: no listener is run)
RunNoListeners(store, tab, ids) == [ls |-> store, tab |-> tab]

\* the beforeunload listeners of a tab, run in the order they were added
RECURSIVE RunUnloadListeners(_, _, _)
RunUnloadListeners(store, tab, ids) ==
    IF ids = <<>> THEN [ls |-> store, tab |-> tab]
    ELSE LET r == ReleaseTabLock(store, tab, Head(ids))
         IN  RunUnloadListeners(r.ls, r.tab, Tail(ids))

\* the page is closed: beforeunload fires, then the page is gone
Unload(t) ==
    /\ tabs[t].alive /\ tabs[t].pc = "idle"
    /\ LET r == RunUnloadListeners(ls, tabs[t], tabs[t].unloadListeners)
       IN  /\ ls' = r.ls
           /\ tabs' = [IF r.ls # ls THEN Interfere(tabs, t) ELSE tabs EXCEPT ![t] = DeadTab]
    /\ hist' = Record("beforeunload", t, JNull, TRUE, JNull, "none")
    /\ UNCHANGED <<now, nextUuid>>

\* the page disappears without beforeunload (crash, forced termination)
Crash(t) ==
    /\ tabs[t].alive
    /\ tabs' = [tabs EXCEPT ![t] = DeadTab]
    /\ hist' = NoHist
    /\ UNCHANGED <<ls, now, nextUuid>>

\* the clock of the model: time passes in steps of one heartbeat interval or of
\* one lock timeout, a bounded number of each; a running acquireTabLock is
\* synchronous code and takes no such time
BeatTicks(time) == ((time - StartTime) % LOCK_TIMEOUT) \div HEARTBEAT_INTERVAL
TimeoutTicks(time) == (time - StartTime) \div LOCK_TIMEOUT

\* one heartbeat interval passes
BeatTick ==
    /\ \A t \in Tabs : tabs[t].pc = "idle"
    /\ BeatTicks(now) < MaxBeatTicks
    /\ now' = now + HEARTBEAT_INTERVAL
    /\ hist' = NoHist
    /\ UNCHANGED <<ls, tabs, nextUuid>>

\* one lock timeout passes
TimeoutTick ==
    /\ \A t \in Tabs : tabs[t].pc = "idle"
    /\ TimeoutTicks(now) < MaxTimeoutTicks
    /\ now' = now + LOCK_TIMEOUT
    /\ hist' = NoHist
    /\ UNCHANGED <<ls, tabs, nextUuid>>

\* the lease coordinator alone: tabs calling the functions of tabLock.ts
LeaseNext ==
    \/ \E t \in Tabs : AcquireTabLock(t)
    \/ \E t \in Tabs : AcquireWrite(t)
    \/ \E t \in Tabs : AcquireVerify(t)
    \/ \E t \in Tabs : Release(t)
    \/ \E t \in Tabs : CheckLockActive(t)
    \/ \E t \in Tabs : Heartbeat(t)
    \/ \E t \in Tabs : Unload(t)
    \/ \E t \in Tabs : Crash(t)
    \/ BeatTick
    \/ TimeoutTick

LeaseSpec == Init /\ [][LeaseNext]_vars


(***************************************************************************)
(* The transaction layer alone: one context calling the functions of       *)
(* utils/storage on documents of every kind, on a medium that may fail,    *)
(* and the stored bytes being damaged from outside.                        *)
(***************************************************************************)
TaskB == [id |-> 2, description |-> MaxDescription, completed |-> JTrue, createdAt |-> StartTime,
          completedAt |-> StartTime, date |-> 2]
\* a task no schema accepts: its description is empty
TaskX == [id |-> 3, description |-> 0, completed |-> JFalse, createdAt |-> StartTime,
          completedAt |-> JNull, date |-> 1]
SampleTasks == {TaskB, TaskX}

TaskLists == UNION {[1..n -> SampleTasks] : n \in 0..MaxTxTasks}

DocOf(tasks, count) ==
    [metadata |-> [version |-> VERSION, lastModified |-> StartTime, totalTaskCount |-> count,
                   oldestTaskDate |-> IF tasks = <<>> THEN JNull ELSE 1,
                   newestTaskDate |-> IF tasks = <<>> THEN JNull ELSE 2],
     tasks |-> tasks,
     preferences |-> [lastViewedDate |-> 1, sortOrder |-> NEWEST_FIRST]]

\* the documents written: valid ones, and ones with an invalid task or an invalid count
TxDocs == {DocOf(ts, Len(ts)) : ts \in TaskLists} \cup {DocOf(<<>>, 0 - 1)}

\* bytes put under the primary key from outside: not JSON, the empty string,
\* and JSON of documents that fail the schema (an invalid task alone, and an
\* invalid task after a valid one)
Garbage == {<<Bad>>, <<>>, Serialize(DocOf(<<TaskX>>, 1)), Serialize(DocOf(<<TaskB, TaskX>>, 2))}

\* the faults a setItem call of atomicWrite can meet: none when the call is not made
FaultsIf(called) == IF called THEN Faults ELSE {"ok"}

TxWrite(t) ==
    \E data \in TxDocs :
    \E fb \in FaultsIf(AppDataSchema(data) /\ Truthy(GetItem(ls, STORAGE_KEY))) :
    \E fp \in FaultsIf(AppDataSchema(data) /\ fb # "throw") :
    \E fr \in FaultsIf(AtomicWrite(ls, data, [backup |-> fb, primary |-> fp, rollback |-> "ok"]).called.rollback) :
      LET f == [backup |-> fb, primary |-> fp, rollback |-> fr]
          r == AtomicWrite(ls, data, f)
      IN  /\ ls' = r.ls
          /\ hist' = [Record("atomicWrite", t, JNull, ~r.threw, JNull, r.error)
                         EXCEPT !.data = data, !.f = f]
          /\ UNCHANGED <<now, tabs, nextUuid>>

TxRead(t) ==
    LET r == ReadStorage(ls)
    IN  /\ hist' = [Record("readStorage", t, JNull, ~r.isNull, JNull, "none") EXCEPT !.data = r.data]
        /\ UNCHANGED <<ls, now, tabs, nextUuid>>

TxValidate(t) ==
    /\ hist' = Record("validateStorage", t, JNull, ValidateStorage(ls), JNull, "none")
    /\ UNCHANGED <<ls, now, tabs, nextUuid>>

TxClear(t) ==
    /\ ls' = ClearStorage(ls)
    /\ hist' = Record("clearStorage", t, JNull, TRUE, JNull, "none")
    /\ UNCHANGED <<now, tabs, nextUuid>>

Corrupt ==
    /\ \E g \in Garbage : ls' = [ls EXCEPT ![STORAGE_KEY] = Stored(g)]
    /\ hist' = NoHist
    /\ UNCHANGED <<now, tabs, nextUuid>>

TxNext ==
    \/ TxWrite(1)
    \/ TxRead(1)
    \/ TxValidate(1)
    \/ TxClear(1)
    \/ Corrupt

TxSpec == Init /\ [][TxNext]_vars


(***************************************************************************)
(* Properties of the transaction layer (checked under TxSpec).             *)
(***************************************************************************)
WriteDone == hist.op = "atomicWrite"

\* the case of C1: a valid document, a current value that was copied to the
\* backup key, a primary write that throws, on a medium that throws but does
\* not truncate
C1_Case ==
    /\ WriteDone
    /\ AppDataSchema(hist.data)
    /\ Truthy(hist.pre[STORAGE_KEY])
    /\ hist.f.backup = "ok"
    /\ hist.f.primary = "throw"
    /\ hist.f.rollback # "trunc"

\* C1: if the write of the primary key throws after the backup copy was made,
\* then after atomicWrite the primary key holds exactly the value it held
\* before the call, and readStorage() returns what it returned before.
C1_AtomicityUnderFailure ==
    C1_Case =>
        /\ ~hist.ok
        /\ ls[STORAGE_KEY] = hist.pre[STORAGE_KEY]
        /\ ReadStorage(ls) = ReadStorage(hist.pre)

\* a failed write of a new document over a readable one, rolled back
C1_Witness ==
    /\ C1_Case
    /\ hist.f.rollback = "ok"
    /\ ~ReadStorage(hist.pre).isNull
    /\ ReadStorage(hist.pre).data # hist.data
    /\ ReadStorage(ls).data = ReadStorage(hist.pre).data

\* C3: after atomicWrite(D) succeeds, D is schema-valid, the primary key holds
\* exactly the serialization of D and readStorage() returns a document equal to D.
C3_RoundTrip ==
    (WriteDone /\ hist.ok) =>
        /\ AppDataSchema(hist.data)
        /\ ls[STORAGE_KEY] = Stored(Serialize(hist.data))
        /\ ReadStorage(ls) = [isNull |-> FALSE, data |-> hist.data]

\* a successful write of a document with a task, over another value
C3_Witness ==
    /\ WriteDone /\ hist.ok
    /\ Len(hist.data.tasks) >= 1
    /\ Truthy(hist.pre[STORAGE_KEY])
    /\ hist.pre[STORAGE_KEY] # ls[STORAGE_KEY]

\* C4 (as claimed): if the value read back differs from the serialized document
\* because the medium truncated it, atomicWrite fails and the primary key is
\* restored to the value it held before the write.
C4_TruncationRolledBack ==
    (/\ WriteDone
     /\ AppDataSchema(hist.data)
     /\ hist.f = [NoFaults EXCEPT !.primary = "trunc"])
    => (~hist.ok /\ ls[STORAGE_KEY] = hist.pre[STORAGE_KEY])

\* C5 (as claimed): atomicWrite of a document that fails the schema fails and
\* leaves the primary key and the backup key as they were.
C5_InvalidLeavesStore ==
    (/\ WriteDone
     /\ ~AppDataSchema(hist.data)
     /\ hist.f = NoFaults)
    => (/\ ~hist.ok
        /\ ls[STORAGE_KEY] = hist.pre[STORAGE_KEY]
        /\ ls[BACKUP_KEY] = hist.pre[BACKUP_KEY])


(***************************************************************************)
(* Properties of the tab lock (checked under LeaseSpec).                   *)
(***************************************************************************)
AcquireDone == hist.op = "acquireTabLock"

\* the record a finished acquireTabLock read first was present and fresh
SawFresh == ~hist.seen.isNull /\ hist.at - hist.seen.timestamp < LOCK_TIMEOUT

\* the record a finished acquireTabLock read first was older than the staleness threshold
SawStale == ~hist.seen.isNull /\ hist.at - hist.seen.timestamp > LOCK_TIMEOUT

\* C6: an acquireTabLock that finds a fresh record (such as the one of a tab
\* whose own acquireTabLock returned acquired = true) returns acquired = false
\* with lockId null and stores nothing under the lock key.
C6_FreshLockRefuses ==
    (AcquireDone /\ SawFresh) =>
        /\ ~hist.ok
        /\ hist.ret = JNull
        /\ ~hist.wrote
        /\ ls[LOCK_KEY] = hist.pre[LOCK_KEY]

\* tab 2 is refused while tab 1, which acquired the lock, holds a fresh record
C6_Witness ==
    /\ AcquireDone /\ SawFresh /\ ~hist.ok
    /\ hist.tab = 2
    /\ tabs[1].alive /\ tabs[1].currentLockId = hist.seen.lockId
    /\ hist.at > hist.seen.timestamp

ReleaseDone == hist.op = "releaseTabLock"

\* C8: releaseTabLock(id) never throws; it removes the lock record exactly when
\* the stored lockId equals id, and otherwise (a second call, or an id that no
\* longer matches the stored record) leaves the record unchanged.
C8_ReleaseOnlyOwn ==
    ReleaseDone =>
        /\ hist.ok
        /\ IF ~GetLockData(hist.pre).isNull /\ GetLockData(hist.pre).lockId = hist.arg
           THEN ls[LOCK_KEY] = Absent
           ELSE ls[LOCK_KEY] = hist.pre[LOCK_KEY]

\* a release with the id of a lock that has been reclaimed by another tab
C8_Witness ==
    /\ ReleaseDone
    /\ ~GetLockData(hist.pre).isNull
    /\ GetLockData(hist.pre).lockId # hist.arg
    /\ ls[LOCK_KEY] = hist.pre[LOCK_KEY]
    /\ \E t \in Tabs : t # hist.tab /\ tabs[t].currentLockId = GetLockData(ls).lockId

\* C9 (as claimed): a heartbeat that finds the record carrying another lockId
\* makes the tab stop considering itself the holder and leaves the record alone.
C9_HeartbeatDetectsLoss ==
    (/\ hist.op = "updateHeartbeat"
     /\ hist.held # JNull
     /\ ~GetLockData(hist.pre).isNull
     /\ GetLockData(hist.pre).lockId # hist.held)
    => (/\ tabs[hist.tab].currentLockId = JNull
        /\ ls[LOCK_KEY] = hist.pre[LOCK_KEY])


(***************************************************************************)
(* The application: every tab mounts App, whose initialize effect runs     *)
(* initializeApp, loadPreferences and loadTasks in turn; afterwards the    *)
(* user picks dates and, where the interface lets them, adds tasks.        *)
(***************************************************************************)
\* the setItem faults the stores' atomicWrite calls meet: none here (the failing
\* medium is the subject of TxSpec)
AppFaults == {NoFaults}

\* initializeApp(), up to the point where acquireTabLock has read the record
InitializeApp(t) ==
    /\ tabs[t].alive /\ tabs[t].pc = "idle" /\ tabs[t].boot = "mounted"
    /\ IF ~ValidateStorage(ls)
       THEN /\ tabs' = [tabs EXCEPT ![t] = [@ EXCEPT !.isReadOnlyMode = TRUE,
                                                      !.readOnlyReason = REASON_CORRUPTED,
                                                      !.boot = "loadPreferences"]]
            /\ hist' = NoHist
            /\ UNCHANGED <<ls, now, nextUuid>>
       ELSE IF IsLockActive(ls, now)
       THEN /\ tabs' = [tabs EXCEPT ![t] = [@ EXCEPT !.isReadOnlyMode = TRUE,
                                                      !.readOnlyReason = REASON_OTHER_TAB,
                                                      !.boot = "loadPreferences"]]
            /\ hist' = NoHist
            /\ UNCHANGED <<ls, now, nextUuid>>
       ELSE AcquireRead(t, "init")

\* a store action that ends in atomicWrite(data): the store afterwards and the record of the call
StoreWrite(op, t, arg, data, f) ==
    LET r == AtomicWrite(ls, data, f)
    IN  [ls |-> r.ls,
         threw |-> r.threw,
         hist |-> [Record(op, t, arg, ~r.threw, JNull, r.error) EXCEPT !.data = data, !.f = f]]

\* preferencesStore.loadPreferences()
LoadPreferences(t) ==
    /\ tabs[t].alive /\ tabs[t].pc = "idle" /\ tabs[t].boot = "loadPreferences"
    /\ LET data == ReadStorage(ls)
           initialData == createInitialAppData(now)
       IN  IF data.isNull
           THEN \E f \in AppFaults :
                  LET w == StoreWrite("loadPreferences", t, JNull, initialData, f)
                  IN  /\ ls' = w.ls
                      /\ hist' = w.hist
                      /\ tabs' = [tabs EXCEPT ![t] =
                            [@ EXCEPT !.boot = "loadTasks",
                                      !.lastViewedDate =
                                          IF w.threw THEN @ ELSE initialData.preferences.lastViewedDate]]
           ELSE /\ tabs' = [tabs EXCEPT ![t] =
                      [@ EXCEPT !.boot = "loadTasks",
                                !.lastViewedDate = data.data.preferences.lastViewedDate]]
                /\ hist' = Record("loadPreferences", t, JNull, TRUE, JNull, "none")
                /\ UNCHANGED ls
    /\ UNCHANGED <<now, nextUuid>>

\* taskStore.loadTasks(), then setIsInitialized(true)
LoadTasks(t) ==
    /\ tabs[t].alive /\ tabs[t].pc = "idle" /\ tabs[t].boot = "loadTasks"
    /\ LET data == ReadStorage(ls)
           initialData == createInitialAppData(now)
       IN  IF data.isNull
           THEN \E f \in AppFaults :
                  LET w == StoreWrite("loadTasks", t, JNull, initialData, f)
                  IN  /\ ls' = w.ls
                      /\ hist' = w.hist
                      /\ tabs' = [tabs EXCEPT ![t] =
                            [@ EXCEPT !.boot = "ready",
                                      !.tasks = IF w.threw THEN @ ELSE <<>>]]
           ELSE /\ tabs' = [tabs EXCEPT ![t] = [@ EXCEPT !.boot = "ready", !.tasks = data.data.tasks]]
                /\ hist' = Record("loadTasks", t, JNull, TRUE, JNull, "none")
                /\ UNCHANGED ls
    /\ UNCHANGED <<now, nextUuid>>

\* the date the user moves to: the day after today
Dates(time) == {DateOf(time) + 1}

\* the selected date changes: the effect of App
\* calls preferencesStore.setLastViewedDate(date), in read-only mode too
SetLastViewedDate(t) ==
    /\ tabs[t].alive /\ tabs[t].pc = "idle" /\ tabs[t].boot = "ready"
    /\ \E date \in Dates(now) :
         LET currentData == ReadStorage(ls)
             updatedData == [currentData.data EXCEPT !.preferences.lastViewedDate = date,
                                                     !.metadata.lastModified = now]
         IN  IF currentData.isNull
             THEN /\ hist' = Record("setLastViewedDate", t, date, FALSE, JNull, "No data found")
                  /\ UNCHANGED <<ls, tabs>>
             ELSE \E f \in AppFaults :
                    LET w == StoreWrite("setLastViewedDate", t, date, updatedData, f)
                    IN  /\ ls' = w.ls
                        /\ hist' = w.hist
                        /\ tabs' = [tabs EXCEPT ![t].lastViewedDate = IF w.threw THEN @ ELSE date]
    /\ UNCHANGED <<now, nextUuid>>

\* the task form is submitted (it is disabled in read-only mode): taskStore.addTask(description)
AddTask(t) ==
    /\ tabs[t].alive /\ tabs[t].pc = "idle" /\ tabs[t].boot = "ready"
    /\ ~tabs[t].isReadOnlyMode
    /\ nextUuid <= MaxUuid + MaxTasks
    /\ LET read == ReadStorage(ls)
           currentData == IF read.isNull THEN createInitialAppData(now) ELSE read.data
           newTask == [id |-> nextUuid, description |-> 1, completed |-> JFalse,
                       createdAt |-> now, completedAt |-> JNull, date |-> DateOf(now)]
           updatedTasks == Append(currentData.tasks, newTask)
           updatedData ==
               [currentData EXCEPT
                   !.tasks = updatedTasks,
                   !.metadata.lastModified = now,
                   !.metadata.totalTaskCount = Len(updatedTasks),
                   !.metadata.newestTaskDate = newTask.date,
                   !.metadata.oldestTaskDate = IF @ = JNull THEN newTask.date ELSE @]
       IN  /\ Len(currentData.tasks) < MaxTasks
           /\ \E f \in AppFaults :
                LET w == StoreWrite("addTask", t, JNull, updatedData, f)
                IN  /\ ls' = w.ls
                    /\ hist' = w.hist
                    /\ tabs' = [tabs EXCEPT ![t].tasks = IF w.threw THEN @ ELSE updatedTasks]
    /\ nextUuid' = nextUuid + 1
    /\ UNCHANGED now

Next ==
    \/ \E t \in Tabs : InitializeApp(t)
    \/ \E t \in Tabs : AcquireWrite(t)
    \/ \E t \in Tabs : AcquireVerify(t)
    \/ \E t \in Tabs : LoadPreferences(t)
    \/ \E t \in Tabs : LoadTasks(t)
    \/ \E t \in Tabs : SetLastViewedDate(t)
    \/ \E t \in Tabs : AddTask(t)
    \/ \E t \in Tabs : Heartbeat(t)
    \/ \E t \in Tabs : Unload(t)
    \/ \E t \in Tabs : Crash(t)
    \/ TimeoutTick

Spec == Init /\ [][Next]_vars

(***************************************************************************)
(* Properties of the application (checked under Spec).                     *)
(***************************************************************************)
\* the tab considers itself the lease holder
ConsidersItselfHolder(t) ==
    tabs[t].alive /\ tabs[t].currentLockId # JNull /\ tabs[t].hasTabLock

\* C2 (as claimed): in every reachable state at most one tab considers itself
\* the lease holder (currentLockId set, hasTabLock true).
C2_AtMostOneHolder ==
    \A t1, t2 \in Tabs :
        (ConsidersItselfHolder(t1) /\ ConsidersItselfHolder(t2)) => t1 = t2

StoreWriteOps == {"loadPreferences", "loadTasks", "setLastViewedDate", "addTask"}

\* C10 (as claimed): every write a tab makes to the primary document key
\* happens while the lease record in the store carries that tab's lockId.
C10_WritesOnlyUnderLease ==
    (hist.op \in StoreWriteOps /\ ls[STORAGE_KEY] # hist.pre[STORAGE_KEY]) =>
        /\ hist.held # JNull
        /\ ~GetLockData(hist.pre).isNull
        /\ GetLockData(hist.pre).lockId = hist.held


(***************************************************************************)
(* Further properties of the transaction layer (checked under TxSpec).     *)
(***************************************************************************)
ReadDone == hist.op = "readStorage"

\* the envelope (metadata, preferences) of the stored bytes is valid and they
\* hold at least one valid task and at least one invalid task
PartiallyCorrupted(store) ==
    LET raw == store[STORAGE_KEY]
        parsed == Parse(raw.bytes)
    IN  /\ raw.present /\ parsed.ok
        /\ StorageMetadataSchema(parsed.value.metadata)
        /\ UserPreferencesSchema(parsed.value.preferences)
        /\ \E i \in 1..Len(parsed.value.tasks) : TaskSchema(parsed.value.tasks[i])
        /\ \E i \in 1..Len(parsed.value.tasks) : ~TaskSchema(parsed.value.tasks[i])

\* the tasks of the stored bytes that pass TaskSchema, in their order
ValidTasksOf(store) ==
    LET ts == Parse(store[STORAGE_KEY].bytes).value.tasks
    IN  SelectSeq(ts, LAMBDA t : TaskSchema(t))

\* C15 (as claimed): a stored document with a valid envelope and one invalid
\* task among N valid ones is salvaged: the integrity check does not reject it
\* (the application stays writable) and reading it yields exactly the N valid tasks.
C15_PartialSalvage ==
    /\ (hist.op = "validateStorage" /\ PartiallyCorrupted(hist.pre)) => hist.ok
    /\ (ReadDone /\ PartiallyCorrupted(hist.pre)) =>
           (hist.ok /\ hist.data.tasks = ValidTasksOf(hist.pre))

\* the primary key is absent, or its content does not parse, or does not validate
Unreadable(store) ==
    LET raw == store[STORAGE_KEY]
    IN  \/ ~raw.present
        \/ ~Parse(raw.bytes).ok
        \/ ~AppDataSchema(Parse(raw.bytes).value)

\* C16: readStorage() returns null when the primary key is absent and when its
\* content fails to parse or to validate; it throws nothing and changes no key.
C16_ReadNullOnUnreadable ==
    ReadDone =>
        /\ ls = hist.pre
        /\ hist.error = "none"
        /\ Unreadable(hist.pre) => (~hist.ok /\ hist.data = NoDoc)

\* readStorage() has returned null for bytes that parse but fail the schema
C16_Witness ==
    /\ ReadDone /\ ~hist.ok
    /\ hist.pre[STORAGE_KEY].present
    /\ Parse(hist.pre[STORAGE_KEY].bytes).ok
    /\ ~AppDataSchema(Parse(hist.pre[STORAGE_KEY].bytes).value)

\* C17 (as claimed): atomicWrite never lets an exception reach its caller; a
\* rejected write is reported as a result value.
C17_NoExceptionPropagates ==
    WriteDone => hist.error = "none"

\* C18 (as claimed): when the write fails and the restore of the backup into the
\* primary key fails too, the failure that reaches the caller carries both the
\* original error and the restore error.
C18_BothErrorsReported ==
    LET r == AtomicWrite(hist.pre, hist.data, hist.f)
    IN  (WriteDone /\ r.called.rollback /\ hist.f.rollback = "throw") =>
            {r.original, "QuotaExceededError"} \subseteq {hist.error}

ForeignLockId == MaxUuid + MaxTasks + 1

\* the primary key at startup: absent, a valid document, bytes that are not
\* JSON, JSON that fails the schema
StartPrimary ==
    {Absent, Stored(Serialize(DocOf(<<TaskB>>, 1))), Stored(<<Bad>>),
     Stored(Serialize(DocOf(<<TaskB, TaskX>>, 2)))}

\* the lock key at startup: absent, or the record of another context, just
\* written or older than LOCK_TIMEOUT
StartLock ==
    {Absent,
     Stored(SerializeLock([lockId |-> ForeignLockId, timestamp |-> StartTime])),
     Stored(SerializeLock([lockId |-> ForeignLockId, timestamp |-> StartTime - LOCK_TIMEOUT - 1]))}

StartupInit ==
    /\ ls \in {[k \in Keys |-> IF k = STORAGE_KEY THEN p ELSE IF k = LOCK_KEY THEN l ELSE Absent] :
                 p \in StartPrimary, l \in StartLock}
    /\ now = StartTime
    /\ tabs = [t \in Tabs |-> FreshTab]
    /\ nextUuid = 1
    /\ hist = NoHist

\* handleExportData(): exportRawData() and a download; nothing is stored
ExportData(t) ==
    /\ tabs[t].alive /\ tabs[t].pc = "idle" /\ tabs[t].boot = "ready"
    /\ hist' = Record("exportRawData", t, JNull, TRUE, JNull, "none")
    /\ UNCHANGED <<ls, now, tabs, nextUuid>>

\* handleResetStorage(), offered by the banner of the read-only mode: clearStorage(),
\* atomicWrite(createInitialAppData()) and, unless that threw, a reload of the page
ResetStorage(t) ==
    /\ tabs[t].alive /\ tabs[t].pc = "idle" /\ tabs[t].boot = "ready"
    /\ tabs[t].isReadOnlyMode /\ tabs[t].readOnlyReason # NoReason
    /\ \E f \in AppFaults :
         LET initialData == createInitialAppData(now)
             r == AtomicWrite(ClearStorage(ls), initialData, f)
             u == RunUnloadListeners(r.ls, tabs[t], tabs[t].unloadListeners)
         IN  /\ hist' = [Record("handleResetStorage", t, JNull, ~r.threw, JNull, r.error)
                            EXCEPT !.data = initialData, !.f = f]
             /\ IF r.threw
                THEN /\ ls' = r.ls
                     /\ UNCHANGED tabs
                ELSE /\ ls' = u.ls
                     /\ tabs' = [IF u.ls # r.ls THEN Interfere(tabs, t) ELSE tabs
                                    EXCEPT ![t] = FreshTab]
    /\ UNCHANGED <<now, nextUuid>>

StartupNext ==
    \/ \E t \in Tabs : InitializeApp(t)
    \/ \E t \in Tabs : AcquireWrite(t)
    \/ \E t \in Tabs : AcquireVerify(t)
    \/ \E t \in Tabs : LoadPreferences(t)
    \/ \E t \in Tabs : LoadTasks(t)
    \/ \E t \in Tabs : SetLastViewedDate(t)
    \/ \E t \in Tabs : ExportData(t)
    \/ \E t \in Tabs : ResetStorage(t)

StartupSpec == StartupInit /\ [][StartupNext]_vars


(***************************************************************************)
(* Properties of startup and recovery (checked under StartupSpec).         *)
(***************************************************************************)
\* the primary key holds bytes that do not parse or do not validate
CorruptedBytes(store) ==
    LET raw == store[STORAGE_KEY]
    IN  /\ Truthy(raw)
        /\ \/ ~Parse(raw.bytes).ok
           \/ ~AppDataSchema(Parse(raw.bytes).value)

\* the lock key holds a record younger than LOCK_TIMEOUT
FreshRecord(store, time) ==
    /\ ~GetLockData(store).isNull
    /\ time - GetLockData(store).timestamp < LOCK_TIMEOUT

LeaseReasons == {REASON_OTHER_TAB, REASON_NOT_ACQUIRED}

\* this step is the return of initializeApp in tab t
InitializeAppReturns(t) ==
    /\ tabs[t].alive /\ tabs[t].boot = "mounted"
    /\ tabs'[t].boot = "loadPreferences"

\* C11: initializeApp leaves the tab in read-only mode with a non-null reason
\* when the stored document fails the integrity check (the corruption reason)
\* and when the lease is held by another context or cannot be acquired (a lease
\* reason), and the corruption reason differs from the lease reasons.
C11_ReadOnlyWithReason ==
    [][\A t \in Tabs :
         InitializeAppReturns(t) =>
           /\ (tabs[t].pc = "idle" /\ CorruptedBytes(ls)) =>
                 (tabs'[t].isReadOnlyMode /\ tabs'[t].readOnlyReason = REASON_CORRUPTED)
           /\ (tabs[t].pc = "idle" /\ ~CorruptedBytes(ls) /\ FreshRecord(ls, now)) =>
                 (tabs'[t].isReadOnlyMode /\ tabs'[t].readOnlyReason = REASON_OTHER_TAB)
           /\ (tabs[t].pc # "idle" /\ ~tabs'[t].hasTabLock) =>
                 (tabs'[t].isReadOnlyMode /\ tabs'[t].readOnlyReason = REASON_NOT_ACQUIRED)
           /\ tabs'[t].isReadOnlyMode = ~tabs'[t].hasTabLock
           /\ REASON_CORRUPTED \notin LeaseReasons
           /\ NoReason \notin LeaseReasons \cup {REASON_CORRUPTED}]_vars

\* one tab is read-only because of corruption and another because of the lease
C11_Witness ==
    \E t, u \in Tabs :
        /\ tabs[t].isReadOnlyMode /\ tabs[t].readOnlyReason = REASON_CORRUPTED
        /\ tabs[u].isReadOnlyMode /\ tabs[u].readOnlyReason \in LeaseReasons

StartupLoads == {"loadPreferences", "loadTasks"}

\* C12 (as claimed): when the primary key holds bytes that do not parse or do
\* not validate, the loads of startup leave the primary key unchanged, so
\* exportRawData() afterwards returns exactly the corrupted bytes.
C12_StartupKeepsCorruptedBytes ==
    (hist.op \in StartupLoads /\ CorruptedBytes(hist.pre)) =>
        /\ ls[STORAGE_KEY] = hist.pre[STORAGE_KEY]
        /\ ExportRawData(ls) = hist.pre[STORAGE_KEY].bytes

ResetDone == hist.op = "handleResetStorage"

\* C13 (as claimed): while a tab is in read-only mode no action of it other than
\* the reset changes the primary key, and export changes no key at all.
C13_ReadOnlyChangesNothing ==
    /\ (/\ hist.op \in StoreWriteOps
        /\ tabs[hist.tab].alive /\ tabs[hist.tab].isReadOnlyMode)
       => ls[STORAGE_KEY] = hist.pre[STORAGE_KEY]
    /\ hist.op = "exportRawData" => ls = hist.pre

\* C14 (as claimed): after the reset the primary key holds a freshly initialized
\* empty document and the backup key and the lock key are both absent.
C14_ResetWipesAll ==
    (ResetDone /\ hist.ok) =>
        /\ ls[STORAGE_KEY] = Stored(Serialize(createInitialAppData(hist.at)))
        /\ ReadStorage(ls).data.tasks = <<>>
        /\ ReadStorage(ls).data.metadata.totalTaskCount = 0
        /\ ls[BACKUP_KEY] = Absent
        /\ ls[LOCK_KEY] = Absent


(***************************************************************************)
(* The task store alone: one context calling the mutations of taskStore on *)
(* a store that starts empty, the write of the primary key sometimes       *)
(* rejected by the medium.                                                 *)
(***************************************************************************)
StoreFaults == {NoFaults, [NoFaults EXCEPT !.primary = "throw"]}

\* the descriptions an edit can save: an empty one and another text
EditedDescriptions == {0, 2}

\* addTask: the document with newTask appended
AddTaskData(currentData, newTask, time) ==
    LET updatedTasks == Append(currentData.tasks, newTask)
    IN  [currentData EXCEPT
            !.tasks = updatedTasks,
            !.metadata.lastModified = time,
            !.metadata.totalTaskCount = Len(updatedTasks),
            !.metadata.newestTaskDate = newTask.date,
            !.metadata.oldestTaskDate = IF @ = JNull THEN newTask.date ELSE @]

\* updateTask(id, {description}): the document with the task of that id changed
UpdateTaskData(currentData, id, description, time) ==
    [currentData EXCEPT
        !.tasks = [i \in 1..Len(@) |->
                      IF @[i].id = id THEN [@[i] EXCEPT !.description = description] ELSE @[i]],
        !.metadata.lastModified = time]

\* (variant of DeleteTaskData: the task is removed, the count is left as it was)
DeleteTaskDataStaleCount(currentData, id, time) ==
    [currentData EXCEPT
        !.tasks = SelectSeq(@, LAMBDA task : task.id # id),
        !.metadata.lastModified = time]

\* deleteTask(id): the document without the task of that id
DeleteTaskData(currentData, id, time) ==
    LET updatedTasks == SelectSeq(currentData.tasks, LAMBDA task : task.id # id)
    IN  [currentData EXCEPT
            !.tasks = updatedTasks,
            !.metadata.lastModified = time,
            !.metadata.totalTaskCount = Len(updatedTasks)]

\* (variant of ToggleTaskData: the flag is flipped, the timestamp is left as it was)
ToggleTaskDataFlagOnly(currentData, id, time) ==
    [currentData EXCEPT
        !.tasks = [i \in 1..Len(@) |->
                      IF @[i].id = id
                      THEN [@[i] EXCEPT !.completed = IF @ = JTrue THEN JFalse ELSE JTrue]
                      ELSE @[i]],
        !.metadata.lastModified = time]

\* toggleTaskCompletion(id): the document with the task of that id toggled
ToggleTaskData(currentData, id, time) ==
    [currentData EXCEPT
        !.tasks = [i \in 1..Len(@) |->
                      IF @[i].id = id
                      THEN [@[i] EXCEPT
                               !.completed = IF @ = JTrue THEN JFalse ELSE JTrue,
                               !.completedAt = IF currentData.tasks[i].completed = JTrue
                                               THEN JNull ELSE time]
                      ELSE @[i]],
        !.metadata.lastModified = time]

\* bulkDeleteCompleted(): the document without its completed tasks
BulkDeleteCompletedData(currentData, time) ==
    LET updatedTasks == SelectSeq(currentData.tasks, LAMBDA task : task.completed # JTrue)
    IN  [currentData EXCEPT
            !.tasks = updatedTasks,
            !.metadata.lastModified = time,
            !.metadata.totalTaskCount = Len(updatedTasks)]

\* the ids a mutation is called with: those of the stored tasks and one of no task
KnownIds(data) == {data.tasks[i].id : i \in 1..Len(data.tasks)} \cup {0}

\* the end of a mutation of taskStore: atomicWrite(updatedData), then set({tasks})
StoreCommit(op, t, arg, updatedData) ==
    \E f \in StoreFaults :
      LET w == StoreWrite(op, t, arg, updatedData, f)
      IN  /\ ls' = w.ls
          /\ hist' = w.hist
          /\ tabs' = [tabs EXCEPT ![t].tasks = IF w.threw THEN @ ELSE updatedData.tasks]

\* a mutation of taskStore that finds no document: 'No data found' is caught
StoreNoData(op, t, arg) ==
    /\ hist' = Record(op, t, arg, FALSE, JNull, "No data found")
    /\ UNCHANGED <<ls, tabs>>

\* taskStore.addTask(description)
StoreAddTask(t) ==
    /\ nextUuid <= MaxUuid
    /\ LET read == ReadStorage(ls)
           currentData == IF read.isNull THEN createInitialAppData(now) ELSE read.data
           newTask == [id |-> nextUuid, description |-> 1, completed |-> JFalse,
                       createdAt |-> now, completedAt |-> JNull, date |-> DateOf(now)]
       IN  StoreCommit("addTask", t, JNull, AddTaskData(currentData, newTask, now))
    /\ nextUuid' = nextUuid + 1
    /\ UNCHANGED now

\* taskStore.updateTask(id, {description})
StoreUpdateTask(t) ==
    /\ LET read == ReadStorage(ls)
       IN  IF read.isNull THEN StoreNoData("updateTask", t, JNull)
           ELSE \E id \in KnownIds(read.data), description \in EditedDescriptions :
                  StoreCommit("updateTask", t, id, UpdateTaskData(read.data, id, description, now))
    /\ UNCHANGED <<now, nextUuid>>

\* taskStore.deleteTask(id)
StoreDeleteTask(t) ==
    /\ LET read == ReadStorage(ls)
       IN  IF read.isNull THEN StoreNoData("deleteTask", t, JNull)
           ELSE \E id \in KnownIds(read.data) :
                  StoreCommit("deleteTask", t, id, DeleteTaskData(read.data, id, now))
    /\ UNCHANGED <<now, nextUuid>>

\* taskStore.toggleTaskCompletion(id)
StoreToggleTask(t) ==
    /\ LET read == ReadStorage(ls)
       IN  IF read.isNull THEN StoreNoData("toggleTaskCompletion", t, JNull)
           ELSE \E id \in KnownIds(read.data) :
                  StoreCommit("toggleTaskCompletion", t, id, ToggleTaskData(read.data, id, now))
    /\ UNCHANGED <<now, nextUuid>>

\* taskStore.bulkDeleteCompleted()
StoreBulkDeleteCompleted(t) ==
    /\ LET read == ReadStorage(ls)
       IN  IF read.isNull THEN StoreNoData("bulkDeleteCompleted", t, JNull)
           ELSE StoreCommit("bulkDeleteCompleted", t, JNull, BulkDeleteCompletedData(read.data, now))
    /\ UNCHANGED <<now, nextUuid>>

\* taskStore.clearAllTasks(): clearStorage(), then atomicWrite(createInitialAppData())
StoreClearAllTasks(t) ==
    /\ \E f \in StoreFaults :
         LET initialData == createInitialAppData(now)
             r == AtomicWrite(ClearStorage(ls), initialData, f)
         IN  /\ ls' = r.ls
             /\ hist' = [Record("clearAllTasks", t, JNull, ~r.threw, JNull, r.error)
                            EXCEPT !.data = initialData, !.f = f]
             /\ tabs' = [tabs EXCEPT ![t].tasks = IF r.threw THEN @ ELSE <<>>]
    /\ UNCHANGED <<now, nextUuid>>

TaskNext ==
    \/ StoreAddTask(1)
    \/ StoreUpdateTask(1)
    \/ StoreDeleteTask(1)
    \/ StoreToggleTask(1)
    \/ StoreBulkDeleteCompleted(1)
    \/ StoreClearAllTasks(1)

TaskSpec == Init /\ [][TaskNext]_vars

(***************************************************************************)
(* Properties of the task store (checked under TaskSpec).                  *)
(***************************************************************************)
TaskMutations ==
    {"addTask", "updateTask", "deleteTask", "toggleTaskCompletion", "bulkDeleteCompleted",
     "clearAllTasks"}

\* C20: after any sequence of addTask, updateTask, deleteTask,
\* toggleTaskCompletion, bulkDeleteCompleted and clearAllTasks the persisted
\* metadata.totalTaskCount equals the number of persisted tasks.
C20_CountMatchesTasks ==
    (hist.op \in TaskMutations /\ ~ReadStorage(ls).isNull) =>
        ReadStorage(ls).data.metadata.totalTaskCount = Len(ReadStorage(ls).data.tasks)

\* one task of several has just been deleted
C20_Witness ==
    /\ hist.op = "deleteTask" /\ hist.ok
    /\ Len(ReadStorage(hist.pre).data.tasks) >= 2
    /\ Len(ReadStorage(ls).data.tasks) = Len(ReadStorage(hist.pre).data.tasks) - 1
    /\ ReadStorage(ls).data.metadata.totalTaskCount = Len(ReadStorage(ls).data.tasks)

\* the persisted document and its task dates
Persisted == ReadStorage(ls).data

TaskDates(data) == {data.tasks[i].date : i \in 1..Len(data.tasks)}

\* C21 (as claimed): after a successful mutation of the task store the
\* persisted metadata.oldestTaskDate and metadata.newestTaskDate are the least
\* and the greatest date of the persisted tasks, and both are null when no task
\* is persisted.
C21_DatesMatchTasks ==
    (hist.op \in TaskMutations /\ hist.ok /\ ~ReadStorage(ls).isNull) =>
        IF Persisted.tasks = <<>>
        THEN /\ Persisted.metadata.oldestTaskDate = JNull
             /\ Persisted.metadata.newestTaskDate = JNull
        ELSE /\ Persisted.metadata.oldestTaskDate \in TaskDates(Persisted)
             /\ Persisted.metadata.newestTaskDate \in TaskDates(Persisted)
             /\ \A d \in TaskDates(Persisted) :
                  /\ Persisted.metadata.oldestTaskDate <= d
                  /\ d <= Persisted.metadata.newestTaskDate

Consistent(task) == (task.completed = JFalse) <=> (task.completedAt = JNull)

C25_QuotaDisablesWrites ==
    (hist.op \in TaskMutations /\ hist.error = "QuotaExceededError") =>
        tabs[hist.tab].isReadOnlyMode

(***************************************************************************)
(* Validation alone: the primary key holds the JSON of a document whose    *)
(* tasks are drawn from every combination of two ids, a completed flag, a  *)
(* completedAt that is null or a timestamp, and a description that is      *)
(* empty or not; validateStorage() and readStorage() are applied to it.    *)
(***************************************************************************)
MaxSchemaTasks == 2

SchemaTasks ==
    {[id |-> id, description |-> description, completed |-> completed, createdAt |-> StartTime,
      completedAt |-> completedAt, date |-> 1] :
        id \in {1, 2}, description \in {0, 1}, completed \in {JTrue, JFalse},
        completedAt \in {JNull, StartTime}}

SchemaDocs ==
    {[createInitialAppData(StartTime) EXCEPT
         !.tasks = ts, !.metadata.totalTaskCount = Len(ts),
         !.metadata.oldestTaskDate = IF ts = <<>> THEN JNull ELSE 1,
         !.metadata.newestTaskDate = IF ts = <<>> THEN JNull ELSE 1] :
        ts \in UNION {[1..n -> SchemaTasks] : n \in 0..MaxSchemaTasks}}

SchemaInit ==
    /\ \E d \in SchemaDocs :
         ls = [k \in Keys |-> IF k = STORAGE_KEY THEN Stored(Serialize(d)) ELSE Absent]
    /\ now = StartTime
    /\ tabs = [t \in Tabs |-> FreshTab]
    /\ nextUuid = 1
    /\ hist = NoHist

SchemaNext ==
    \/ TxValidate(1)
    \/ TxRead(1)

SchemaSpec == SchemaInit /\ [][SchemaNext]_vars

(***************************************************************************)
(* Properties of validation (checked under SchemaSpec).                    *)
(***************************************************************************)
\* the document whose JSON a store holds under the primary key
StoredDoc(store) == Parse(store[STORAGE_KEY].bytes).value

ValidationDone == hist.op \in {"validateStorage", "readStorage"}

\* C23 (as claimed): a stored document with a task whose completed flag and
\* completedAt disagree is rejected: validateStorage() returns false and
\* readStorage() returns null.
C23_InconsistentTaskRejected ==
    (/\ ValidationDone
     /\ \E i \in 1..Len(StoredDoc(hist.pre).tasks) : ~Consistent(StoredDoc(hist.pre).tasks[i]))
    => ~hist.ok

\* C24 (as claimed): a stored document in which two tasks carry the same id is
\* rejected: validateStorage() returns false and readStorage() returns null.
C24_DuplicateIdsRejected ==
    (/\ ValidationDone
     /\ \E i, j \in 1..Len(StoredDoc(hist.pre).tasks) :
          i # j /\ StoredDoc(hist.pre).tasks[i].id = StoredDoc(hist.pre).tasks[j].id)
    => ~hist.ok

\* the other half of that statement, of the task store (TaskSpec): the tasks of
\* a persisted document have pairwise different ids
StoreIdsUnique ==
    ~ReadStorage(ls).isNull =>
        \A i, j \in 1..Len(Persisted.tasks) :
            Persisted.tasks[i].id = Persisted.tasks[j].id => i = j

(***************************************************************************)
(* Further properties of the lease coordinator (checked under LeaseSpec).  *)
(***************************************************************************)
\* C26: isLockActive() changes neither the store nor the state of any tab, and
\* returns true exactly when the lock key holds a record whose age is below
\* LOCK_TIMEOUT (false for no record and for a record of that age or older).
C26_IsLockActivePure ==
    [][hist'.op = "isLockActive" =>
          /\ ls' = ls
          /\ tabs' = tabs
          /\ hist'.ok <=> (/\ ~GetLockData(ls).isNull
                           /\ now - GetLockData(ls).timestamp < LOCK_TIMEOUT)]_vars

\* isLockActive() has returned false for a record that is there
C26_Witness ==
    /\ hist.op = "isLockActive" /\ ~hist.ok
    /\ ~GetLockData(hist.pre).isNull
    /\ ls = hist.pre

\* the store a finished acquireTabLock read: the record it saw under the lock key
SeenStore ==
    [hist.pre EXCEPT ![LOCK_KEY] =
        IF hist.seen.isNull THEN Absent ELSE Stored(SerializeLock(hist.seen))]

\* a finished acquireTabLock returned at its test of the record's age
Refused == AcquireDone /\ ~hist.ok /\ ~hist.wrote /\ hist.error = "none"

\* C27: acquireTabLock and isLockActive() apply the same threshold: for every
\* record and every time, acquireTabLock refuses at its test of the age exactly
\* when isLockActive() returns true for the record it read.
C27_OneThreshold ==
    AcquireDone => (Refused <=> IsLockActive(SeenStore, hist.at))

\* acquireTabLock has refused on a record one heartbeat interval old
C27_Witness ==
    /\ Refused
    /\ ~hist.seen.isNull
    /\ hist.at - hist.seen.timestamp = HEARTBEAT_INTERVAL
    /\ IsLockActive(SeenStore, hist.at)

\* the age from which the documentation calls a record stale: 30 seconds
ThirtySeconds == 30000

\* C28 (as claimed): a record that has not been renewed for 30 seconds is stale:
\* isLockActive() returns false for it, and the acquireTabLock of a tab other
\* than its owner, undisturbed and on a medium that accepts the write, succeeds.
C28_StaleAfterThirtySeconds ==
    /\ (/\ hist.op = "isLockActive"
        /\ ~GetLockData(hist.pre).isNull
        /\ hist.at - GetLockData(hist.pre).timestamp >= ThirtySeconds)
       => ~hist.ok
    /\ (/\ AcquireDone
        /\ ~hist.seen.isNull
        /\ hist.seen.lockId # hist.held
        /\ hist.at - hist.seen.timestamp >= ThirtySeconds
        /\ hist.alone /\ hist.error = "none")
       => hist.ok

UnloadDone == hist.op = "beforeunload"

\* C29: when the page of a tab that has acquired the lease is unloaded, its
\* beforeunload listener removes the record from the store, provided the record
\* still carries the lockId of that tab.
C29_UnloadRemovesOwnRecord ==
    (/\ UnloadDone
     /\ hist.held # JNull
     /\ ~GetLockData(hist.pre).isNull
     /\ GetLockData(hist.pre).lockId = hist.held)
    => ls[LOCK_KEY] = Absent

\* the holder's page has been unloaded and its record is gone
C29_Witness ==
    /\ UnloadDone
    /\ hist.held # JNull
    /\ GetLockData(hist.pre).lockId = hist.held
    /\ ls[LOCK_KEY] = Absent
    /\ ~tabs[hist.tab].alive

(***************************************************************************)
(* The first use of a store (checked under TxSpec).                        *)
(***************************************************************************)
EmptyStore == [k \in Keys |-> Absent]

\* C30: on an empty store readStorage() returns null; once the caller has then
\* written createInitialAppData() with atomicWrite, on a medium that accepts
\* the write, validateStorage() returns true and readStorage() returns that
\* document, whose totalTaskCount is 0.
C30_FirstUse ==
    /\ (ReadDone /\ hist.pre = EmptyStore) => ~hist.ok
    /\ (/\ WriteDone
        /\ hist.pre = EmptyStore
        /\ hist.data = createInitialAppData(hist.at)
        /\ hist.f = NoFaults)
       => /\ hist.ok
          /\ ValidateStorage(ls)
          /\ ReadStorage(ls) = [isNull |-> FALSE, data |-> createInitialAppData(hist.at)]
          /\ ReadStorage(ls).data.metadata.totalTaskCount = 0

\* the fresh document has just been written to the empty store
C30_Witness ==
    /\ WriteDone /\ hist.ok
    /\ hist.pre = EmptyStore
    /\ hist.data = createInitialAppData(hist.at)
    /\ ValidateStorage(ls)
    /\ ls[STORAGE_KEY] = Stored(Serialize(hist.data))

(***************************************************************************)
(* Further properties of the transaction layer (checked under TxSpec).     *)
(***************************************************************************)
ValidateDone == hist.op = "validateStorage"

\* C31 (as claimed): validateStorage() reports the storage as not valid when
\* the primary key is absent.
C31_AbsentIsNotValid ==
    (ValidateDone /\ ~hist.pre[STORAGE_KEY].present) => ~hist.ok

\* C32 (as claimed): when the medium rejects the backup copy at the start of
\* atomicWrite, the write fails and the primary key keeps the value it held
\* before the call.
C32_BackupRejectedKeepsPrimary ==
    (WriteDone /\ AppDataSchema(hist.data) /\ hist.f.backup = "throw") =>
        /\ ~hist.ok
        /\ ls[STORAGE_KEY] = hist.pre[STORAGE_KEY]

\* C33 (as claimed): when atomicWrite of a valid document fails at the store
\* step or at the verification step and the primary key was absent before the
\* call, the primary key is absent afterwards.
C33_FailedFirstWriteLeavesAbsent ==
    (/\ WriteDone /\ ~hist.ok
     /\ AppDataSchema(hist.data)
     /\ ~hist.pre[STORAGE_KEY].present)
    => ~ls[STORAGE_KEY].present

(***************************************************************************)
(* Release and heartbeat (checked under LeaseSpec).                        *)
(***************************************************************************)
\* C34 (as claimed): once releaseTabLock(id) has returned in a tab whose
\* current lease is id, the heartbeat of that tab is stopped and the tab no
\* longer holds a lockId to write, whoever owned the record at that time.
C34_ReleaseStopsHeartbeat ==
    (ReleaseDone /\ hist.arg = hist.held) =>
        /\ tabs[hist.tab].currentLockId = JNull
        /\ tabs[hist.tab].heartbeatTimer = JNull

(***************************************************************************)
(* The lease under punctual heartbeats: tab 1 has just acquired the lease; *)
(* time passes one heartbeat interval at a time, and only when every       *)
(* running heartbeat timer that is due has fired, for longer than          *)
(* LOCK_TIMEOUT in all; the write of a heartbeat may be rejected by the    *)
(* medium.                                                                 *)
(***************************************************************************)
MaxPunctualTicks == 11

\* the lockId of the lease tab 1 holds at the start
FirstLockId == 1

\* the state in which acquireTabLock of tab 1 has returned acquired = true
HeartbeatInit ==
    /\ ls = [k \in Keys |->
                IF k = LOCK_KEY
                THEN Stored(SerializeLock([lockId |-> FirstLockId, timestamp |-> StartTime]))
                ELSE Absent]
    /\ now = StartTime
    /\ tabs = [t \in Tabs |->
                  IF t = 1
                  THEN [FreshTab EXCEPT !.currentLockId = FirstLockId,
                                        !.heartbeatTimer = StartTime + HEARTBEAT_INTERVAL,
                                        !.unloadListeners = <<FirstLockId>>]
                  ELSE FreshTab]
    /\ nextUuid = FirstLockId + 1
    /\ hist = NoHist

\* one heartbeat interval passes, no interval timer being overdue
PunctualTick ==
    /\ \A t \in Tabs : tabs[t].pc = "idle"
    /\ \A t \in Tabs :
         (tabs[t].alive /\ tabs[t].heartbeatTimer # JNull) => now < tabs[t].heartbeatTimer
    /\ now < StartTime + MaxPunctualTicks * HEARTBEAT_INTERVAL
    /\ now' = now + HEARTBEAT_INTERVAL
    /\ hist' = NoHist
    /\ UNCHANGED <<ls, tabs, nextUuid>>

HeartbeatNext ==
    \/ \E t \in Tabs : AcquireTabLock(t)
    \/ \E t \in Tabs : AcquireWrite(t)
    \/ \E t \in Tabs : AcquireVerify(t)
    \/ \E t \in Tabs : Heartbeat(t)
    \/ \E t \in Tabs : Unload(t)
    \/ \E t \in Tabs : Crash(t)
    \/ PunctualTick

HeartbeatSpec == HeartbeatInit /\ [][HeartbeatNext]_vars

(***************************************************************************)
(* Properties of the heartbeat (checked under HeartbeatSpec).              *)
(***************************************************************************)
\* tab u is alive, considers itself holder, and the record carries its lockId
HolderOf(record, u) ==
    /\ tabs[u].alive /\ tabs[u].currentLockId # JNull
    /\ ~record.isNull /\ record.lockId = tabs[u].currentLockId

\* the record was stored by the acquisition or by the latest heartbeat of tab u
Refreshed(record, u) == record.timestamp + HEARTBEAT_INTERVAL = tabs[u].heartbeatTimer

REASON_ENTERED == "Storage quota exceeded."

\* enterReadOnlyMode(reason)
EnterReadOnlyMode(t) ==
    /\ tabs[t].alive /\ tabs[t].pc = "idle" /\ tabs[t].boot # "mounted"
    /\ tabs' = [tabs EXCEPT ![t].isReadOnlyMode = TRUE, ![t].readOnlyReason = REASON_ENTERED]
    /\ hist' = NoHist
    /\ UNCHANGED <<ls, now, nextUuid>>

\* exitReadOnlyMode()
ExitReadOnlyMode(t) ==
    /\ tabs[t].alive /\ tabs[t].pc = "idle" /\ tabs[t].boot # "mounted"
    /\ tabs' = [tabs EXCEPT ![t].isReadOnlyMode = FALSE, ![t].readOnlyReason = NoReason]
    /\ hist' = NoHist
    /\ UNCHANGED <<ls, now, nextUuid>>

\* attemptAcquireTabLock(), up to the point where acquireTabLock has read the record
AttemptAcquireTabLock(t) ==
    /\ tabs[t].alive /\ tabs[t].pc = "idle" /\ tabs[t].boot # "mounted"
    /\ AcquireRead(t, "attempt")

AppStoreNext ==
    \/ \E t \in Tabs : InitializeApp(t)
    \/ \E t \in Tabs : AcquireWrite(t)
    \/ \E t \in Tabs : AcquireVerify(t)
    \/ \E t \in Tabs : EnterReadOnlyMode(t)
    \/ \E t \in Tabs : ExitReadOnlyMode(t)
    \/ \E t \in Tabs : AttemptAcquireTabLock(t)

AppStoreSpec == StartupInit /\ [][AppStoreNext]_vars

(***************************************************************************)
(* Properties of the app store (checked under AppStoreSpec).               *)
(***************************************************************************)
\* initializeApp has returned in tab t and no acquireTabLock is running in it
Initialized(t) == tabs[t].alive /\ tabs[t].boot # "mounted" /\ tabs[t].pc = "idle"

\* C36 (as claimed): in every state reached through initializeApp,
\* enterReadOnlyMode, exitReadOnlyMode and attemptAcquireTabLock, once
\* initializeApp has returned, isReadOnlyMode is false only if hasTabLock is
\* true.
C36_WritableOnlyWithLease ==
    \A t \in Tabs :
        (Initialized(t) /\ ~tabs[t].isReadOnlyMode) => tabs[t].hasTabLock

\* C37 (as claimed): a tab that initializeApp put into read-only mode because
\* the stored document is corrupted does not leave read-only mode through
\* attemptAcquireTabLock.
C37_CorruptedStaysReadOnly ==
    [][\A t \in Tabs :
         (/\ tabs[t].alive /\ tabs[t].caller = "attempt"
          /\ tabs[t].isReadOnlyMode /\ tabs[t].readOnlyReason = REASON_CORRUPTED
          /\ CorruptedBytes(ls)
          /\ tabs'[t].alive)
         => tabs'[t].isReadOnlyMode]_vars

\* this step is initializeApp of tab t, from its start to the point where it
\* returns or acquireTabLock has read the record
InitializeAppStep(t) ==
    /\ tabs[t].alive /\ tabs[t].boot = "mounted" /\ tabs[t].pc = "idle"
    /\ tabs'[t] # tabs[t]

\* C38: when initializeApp finds the stored document corrupted it returns at
\* once, read-only: it starts no acquireTabLock, draws no lockId, changes no
\* key of the store and leaves the tab without a lease.
C38_CorruptedTouchesNoLease ==
    [][\A t \in Tabs :
         (InitializeAppStep(t) /\ CorruptedBytes(ls)) =>
            /\ ls' = ls
            /\ nextUuid' = nextUuid
            /\ tabs'[t].pc = "idle"
            /\ tabs'[t].currentLockId = tabs[t].currentLockId
            /\ tabs'[t].unloadListeners = tabs[t].unloadListeners
            /\ ~tabs'[t].hasTabLock
            /\ tabs'[t].isReadOnlyMode]_vars

\* a tab is read-only for corruption while the stale record of a context long
\* gone, which an acquisition would have replaced, is still under the lock key
C38_Witness ==
    \E t \in Tabs :
        /\ tabs[t].isReadOnlyMode /\ tabs[t].readOnlyReason = REASON_CORRUPTED
        /\ tabs[t].currentLockId = JNull
        /\ CorruptedBytes(ls)
        /\ ~GetLockData(ls).isNull
        /\ GetLockData(ls).lockId = ForeignLockId
        /\ ~FreshRecord(ls, now)

\* every acquireTabLock that has started runs to its end: it is synchronous code
AppStoreFairSpec ==
    /\ AppStoreSpec
    /\ \A t \in Tabs : WF_vars(AcquireWrite(t)) /\ WF_vars(AcquireVerify(t))

Writable(tab) == tab.hasTabLock /\ ~tab.isReadOnlyMode /\ tab.readOnlyReason = NoReason

ReadOnly(tab) == tab.isReadOnlyMode /\ tab.readOnlyReason # NoReason

\* C39: an initializeApp that has started returns, and when it returns the tab
\* is in exactly one of two states: writable (hasTabLock true, isReadOnlyMode
\* false, readOnlyReason null) or read-only (isReadOnlyMode true with a
\* readOnlyReason that is not null).
C39_InitializeAppOutcomes ==
    /\ [][\A t \in Tabs :
            InitializeAppReturns(t) =>
               /\ Writable(tabs'[t]) \/ ReadOnly(tabs'[t])
               /\ ~(Writable(tabs'[t]) /\ ReadOnly(tabs'[t]))]_vars
    /\ \A t \in Tabs :
         (tabs[t].caller = "init") ~> (tabs[t].boot # "mounted")

\* one tab came out of initializeApp writable, the other read-only because its
\* acquireTabLock failed
C39_Witness ==
    \E t, u \in Tabs :
        /\ tabs[t].boot # "mounted" /\ Writable(tabs[t]) /\ tabs[t].isInitialized
        /\ tabs[u].boot # "mounted" /\ ReadOnly(tabs[u])
        /\ tabs[u].readOnlyReason = REASON_NOT_ACQUIRED

====
